---- MODULE Spec2Model ----
(***************************************************************************)
(* Wet-bulb calculator (src/src/wet-bulb-calculator.js): the Stull         *)
(* estimator, the two bisection solvers and the danger classifier.         *)
(*                                                                         *)
(* Numbers.  Temperatures and humidities are held in ticks of 1/5120       *)
(* (= 1/(10 * 2^9)): every decimal tenth is 512 ticks and nine successive  *)
(* bisection midpoints of tenth-valued bounds stay on the tick grid.       *)
(* Transcendental sub-expressions are evaluated in 32-bit binary fixed     *)
(* point (Q30 = units of 2^-30, Q27, Q25, Q24).                            *)
(***************************************************************************)
EXTENDS Integers, Sequences, FiniteSets, TLC

\* ------------------------------------------------------------------------
\* Model bounds (inputs are drawn from these ranges)
\* ------------------------------------------------------------------------
MaxTempIn == 50        \* air temperatures 0..MaxTempIn degrees
MaxTargetIn == 52      \* target wet-bulb temperatures 0..MaxTargetIn degrees

\* ------------------------------------------------------------------------
\* Fixed-point helpers used to evaluate Math.atan / Math.pow
\* ------------------------------------------------------------------------
TICK == 5120
Q30 == 2^30
H15 == 2^15

Abs(x) == IF x < 0 THEN -x ELSE x

\* JavaScript evaluates an expression before its value is used: Val({e}) is
\* the value of e, and Val({f(v) : v \in {e}}) is f applied to that value
Val(S) == CHOOSE v \in S : TRUE

\* floor(a * b / 2^30), exact, for 0 <= a, b < 2^31 (product below 2^61)
MulQ(a, b) ==
    LET a1 == a \div H15
        a0 == a % H15
        b1 == b \div H15
        b0 == b % H15
        c1 == a1 * b0
        c2 == a0 * b1
    IN  a1 * b1 + c1 \div H15 + c2 \div H15
          + ((c1 % H15) + (c2 % H15) + (a0 * b0) \div H15) \div H15

\* signed first factor
SMulQ(a, b) == IF a >= 0 THEN MulQ(a, b) ELSE -MulQ(-a, b)

\* largest power of two k with b * k < 2^30, for 0 < b < 2^30
NormFactor(b) ==
    2^(CHOOSE i \in 0..29 : (Q30 - 1) \div 2^(i + 1) < b /\ b <= (Q30 - 1) \div 2^i)

\* one Newton step towards 1 / bn in Q30 (y in Q30 scaled by 2)
NewtonStep(bn, y) == y + SMulQ(2 * (2^29 - MulQ(bn, y)), y)

\* first guess of the reciprocal from the top 15 bits of bn
RecipSeed(g) == IF g > Q30 THEN Q30 ELSE g

Recip(bn) ==
    Val({NewtonStep(bn, y) :
           y \in {NewtonStep(bn, RecipSeed(((Q30 - 1) \div (bn \div H15)) * (H15 \div 2)))}})

\* quotient q corrected by its residual
DivFix(an, bn, y, q) == q + SMulQ(an - MulQ(q, bn), y) * 2

DivNorm(an, bn, y) == Val({DivFix(an, bn, y, q) : q \in {MulQ(an, y) * 2}})

DivScaled(a, b, k) == Val({DivNorm(a * k, b * k, y) : y \in {Recip(b * k)}})

\* a / b in Q30 for 0 <= a <= b < 2^30: reciprocal by Newton's iteration
DivQ(a, b) == Val({DivScaled(a, b, k) : k \in {NormFactor(b)}})

\* integer square root (Newton, decreasing from x >= sqrt(n))
RECURSIVE ISqrtFrom(_, _)
ISqrtFrom(n, x) ==
    Val({IF y < x THEN ISqrtFrom(n, y) ELSE x : y \in {(x + n \div x) \div 2}})

\* one refinement of the integer root s0 of V, giving 15 more bits
SqrtRefine(V, s0) ==
    s0 * (H15 \div 2) + ((V \div s0) * H15 + ((V % s0) * H15) \div s0) \div 2

\* Math.pow(v, 0.5): v in Q24 -> sqrt(v) in Q27
Sqrt24(V) == IF V = 0 THEN 0 ELSE Val({SqrtRefine(V, s0) : s0 \in {ISqrtFrom(V, 2^16)}})

PI_2 == 1686629713      \* pi/2 in Q30
PI_4 == 843314857       \* pi/4 in Q30
AtanTerms == 12

\* one Horner step of x - x^3/3 + x^5/5 - ...: 1/k - x^2 * acc, in Q30
Horner(x2, k, acc) == Q30 \div k - MulQ(x2, acc)

\* the first five terms, innermost first
AtanHorner5(x2) ==
    Val({Horner(x2, 1, a3) :
      a3 \in {Horner(x2, 3, a5) :
      a5 \in {Horner(x2, 5, a7) :
      a7 \in {Horner(x2, 7, Q30 \div 9)}}}})

\* terms six to AtanTerms, innermost first
AtanHornerTail(x2) ==
    Val({Horner(x2, 11, a13) :
      a13 \in {Horner(x2, 13, a15) :
      a15 \in {Horner(x2, 15, a17) :
      a17 \in {Horner(x2, 17, a19) :
      a19 \in {Horner(x2, 19, a21) :
      a21 \in {Horner(x2, 21, Q30 \div (2 * AtanTerms - 1))}}}}}})

\* all AtanTerms terms
AtanHorner(x2) ==
    Val({Horner(x2, 1, a3) :
      a3 \in {Horner(x2, 3, a5) :
      a5 \in {Horner(x2, 5, a7) :
      a7 \in {Horner(x2, 7, a9) :
      a9 \in {Horner(x2, 9, a11) :
      a11 \in {AtanHornerTail(x2)}}}}}})

\* the remainder after n terms is below x^(2n+1) / (2n+1): five terms
\* suffice below 1/8, AtanTerms up to 0.42
AtanSeries(x) ==
    Val({MulQ(x, IF x < 2^27 THEN AtanHorner5(x2) ELSE AtanHorner(x2)) :
           x2 \in {MulQ(x, x)}})

\* argument reduction: above 2.4 use pi/2 - atan(b/a); below 0.4167 the
\* series applies directly; between, atan(a/b) = pi/4 +- atan(|a-b| / (a+b))
Steep(a, b) == a > 2 * b + (2 * b) \div 5
Shallow(a, b) == ~(a + a + (2 * a) \div 5 > b)

ReducedNum(a, b) ==
    IF Steep(a, b) THEN b ELSE IF Shallow(a, b) THEN a ELSE Abs(a - b)

ReducedDen(a, b) ==
    IF Steep(a, b) THEN a ELSE IF Shallow(a, b) THEN b ELSE a + b

AtanJoin(a, b, s) ==
    IF Steep(a, b) THEN PI_2 - s
    ELSE IF Shallow(a, b) THEN s
    ELSE IF a >= b THEN PI_4 + s ELSE PI_4 - s

\* Math.atan(a / b) in Q30, for 0 <= a < 2^29 and 0 < b < 2^29
AtanPos(a, b) ==
    Val({AtanJoin(a, b, s) :
           s \in {AtanSeries(q) : q \in {DivQ(ReducedNum(a, b), ReducedDen(a, b))}}})

\* Math.atan is odd
Atan(a, b) == Val({(IF v < 0 THEN -1 ELSE 1) * AtanPos(Abs(v), b) : v \in {a}})

\* n ticks as a Q<sh> number: n / 5120 * 2^sh
ToQ(n, sh) ==
    LET m == 2^(sh - 10)
    IN  (n \div 5) * m + ((n % 5) * m) \div 5

\* ------------------------------------------------------------------------
\* calculateWetBulb (wet-bulb-calculator.js lines 16-32)
\* ------------------------------------------------------------------------
C8_313659 == 139480053      \* 8.313659 in Q24
C0_151977 == 1305472489     \* 0.151977 in Q33
C1_676331 == 214570368      \* 1.676331 * 128000000 (exact)
C1_676331m == 8582815       \* 1.676331 * 5120000, rounded
C0_023101 == 317497726      \* 0.023101 / 5120 * 2^46
C0_00391838 == 269269023    \* 0.00391838 in Q36
C4_686035 == 628948971      \* 4.686035 in Q27

\* Math.atan(0.151977 * Math.pow(rh + 8.313659, 0.5)) in Q30; rh in ticks
atan1(hum) ==
    Atan(MulQ(Sqrt24(ToQ(hum, 24) + C8_313659), C0_151977) \div 4, Q30 \div 4)

\* term3 = Math.atan(rh - 1.676331), in Q30
term3(hum) ==
    IF hum < 4 * TICK
    THEN Atan(25000 * hum - C1_676331, 128000000)
    ELSE Atan(1000 * hum - C1_676331m, 5120000)

\* term4 = 0.00391838 * Math.pow(rh, 1.5) * Math.atan(0.023101 * rh), in Q27
term4(hum) ==
    Val({MulQ(p, a) :
           p \in {MulQ(MulQ(ToQ(hum, 24), C0_00391838), Sqrt24(ToQ(hum, 24)))},
           a \in {Atan(MulQ(hum * 2^11, C0_023101), 2^27)}})

\* The humidities at which the program evaluates the estimator: whole
\* percents, the 0.1 steps of the low-humidity scan, and the midpoints the
\* humidity bisection can reach (lines 90-113: low = mid + 0.1, high = mid - 0.1).
RECURSIVE MidsOf(_, _)
MidsOf(lo, hi) ==
    IF lo > hi THEN {}
    ELSE LET m == (lo + hi) \div 2
         IN  {m} \cup MidsOf(m + 512, hi) \cup MidsOf(lo, m - 512)

RhGrid ==
    {TICK * h : h \in 0..100} \cup {512 * k : k \in 0..30} \cup MidsOf(0, 100 * TICK)

\* the three sub-expressions that depend on rh only, evaluated once per rh
HumidityTerms ==
    [r \in RhGrid |-> [a1 |-> atan1(r), t3 |-> term3(r), t4 |-> term4(r)]]

\* term1 = temp * Math.atan(0.151977 * Math.pow(rh + 8.313659, 0.5)), in Q25
term1(tmp, a1) == MulQ(ToQ(tmp, 25), a1)

\* term2 = Math.atan(temp + rh), in Q30
term2(tmp, hum) == Atan(tmp + hum, TICK)

\* term5 = 4.686035, in Q27
term5 == C4_686035

\* SumTerms with term3 added where the code subtracts it
SumTermsAdded(tmp, hum, h) ==
    term1(tmp, h.a1) + (term2(tmp, hum) \div 8 + h.t3 \div 8 + h.t4 - term5) \div 4

\* term1 + term2 - term3 + term4 - term5 in Q25, h the terms that depend on rh
SumTerms(tmp, hum, h) ==
    term1(tmp, h.a1) + (term2(tmp, hum) \div 8 - h.t3 \div 8 + h.t4 - term5) \div 4

\* T_w = term1 + term2 - term3 + term4 - term5, in Q25
T_w(tmp, hum) == SumTerms(tmp, hum, HumidityTerms[hum])

\* Math.round(x * 10) for x in Q25: the nearest tenth, ties upward
RoundTenths(x) ==
    10 * (x \div 2^25) + (10 * (x % 2^25) + 2^24) \div 2^25

\* calculateWetBulb(temp, rh) in tenths of a degree; arguments in ticks
calculateWetBulb(tmp, hum) == RoundTenths(T_w(tmp, hum))

\* ------------------------------------------------------------------------
\* IEEE-754 doubles.  Every double the solvers hold lies within a few ulps
\* of a tick value, so it is held exactly as [n, d]: n ticks plus d units of
\* 2^-60 / 5.  Each arithmetic operation is the exact operation followed by
\* round-to-nearest-even at the precision of the result's binade.
\* ------------------------------------------------------------------------
Dbl(n, d) == [n |-> n, d |-> d]

\* floor(log2(n / 5120)) for n > 0
RECURSIVE BinadeUp(_, _)
BinadeUp(n, e) == IF n >= TICK * 2^(e + 1) THEN BinadeUp(n, e + 1) ELSE e

RECURSIVE BinadeDown(_, _)
BinadeDown(n, e) == IF n * 2^e < TICK THEN BinadeDown(n, e + 1) ELSE -e

Binade(n) == IF n >= TICK THEN BinadeUp(n, 0) ELSE BinadeDown(n, 1)

IsPow2(n, e) == IF e >= 0 THEN n = TICK * 2^e ELSE n * 2^(-e) = TICK

Pow2Mod5(k) == <<1, 2, 4, 3>>[(k % 4) + 1]
Pow2Mod10(k) == <<6, 2, 4, 8>>[(k % 4) + 1]

\* the binade of n/5120 + d * 2^-60/5: one lower just below a power of two
ExpAdjust(n, d, e0) == IF IsPow2(n, e0) /\ d < 0 THEN e0 - 1 ELSE e0

\* with one ulp = 2^(e - 52): n/5120 = (I + r/5) ulps, r in 0..4
UlpRem(n, e) == ((n % 5) * Pow2Mod5(42 - e)) % 5

\* parity of I
MantParity(n, e, r) == ((((n % 10) * Pow2Mod10(42 - e)) % 10) - r) \div 5

\* ties go to the even mantissa
NearestEven(num, w, ipar, R0) ==
    IF (2 * num) % (10 * w) = 5 * w /\ (ipar + R0) % 2 = 1 THEN R0 - 1 ELSE R0

\* num / (5 w) rounded to the nearest integer (one ulp is 5 * w units)
RoundUlps(num, w, ipar) == NearestEven(num, w, ipar, (2 * num + 5 * w) \div (10 * w))

RoundWith(n, d, w, r, ipar) == Dbl(n, 5 * w * RoundUlps(r * w + d, w, ipar) - r * w)

RoundAt(n, d, e) ==
    RoundWith(n, d, 2^(8 + e), UlpRem(n, e), MantParity(n, e, UlpRem(n, e)))

\* round the real number n/5120 + d * 2^-60/5 (n > 0) to the nearest double
RoundPos(n, d) == RoundAt(n, d, ExpAdjust(n, d, Binade(n)))

Neg(a) == Dbl(-a.n, -a.d)

RoundGrid(n, d) ==
    IF n = 0 THEN Dbl(0, d)
    ELSE IF n < 0 THEN Neg(RoundPos(-n, -d))
    ELSE RoundPos(n, d)

\* the double nearest to the decimal n / 5120
Fl(n) == RoundGrid(n, 0)
FlAdd(a, b) == RoundGrid(a.n + b.n, a.d + b.d)
FlSub(a, b) == RoundGrid(a.n - b.n, a.d - b.d)
FlMul10(a) == RoundGrid(10 * a.n, 10 * a.d)
FlHalf(a) == Dbl(a.n \div 2, a.d \div 2)
FlLt(a, b) == a.n < b.n \/ (a.n = b.n /\ a.d < b.d)
FlLe(a, b) == ~FlLt(b, a)
FlAbs(a) == IF FlLt(a, Dbl(0, 0)) THEN Neg(a) ELSE a

\* Math.round(x) = floor(x + 0.5)
MathRound(a) ==
    LET m == a.n + TICK \div 2
    IN  IF m % TICK = 0 /\ a.d < 0 THEN m \div TICK - 1 ELSE m \div TICK

\* a value in tenths (the estimator's result k / 10) as a double
Tenths(k) == Fl(512 * k)

\* the literals 0.1, 0.2, 3 and 100
Lit0_1 == Fl(512)
Lit0_2 == Fl(1024)
Lit3 == Fl(3 * TICK)
Lit100 == Fl(100 * TICK)

\* ------------------------------------------------------------------------
\* State: the arguments and locals of the call in progress
\* ------------------------------------------------------------------------
VARIABLES
    op,                 \* the operation called
    pc,                 \* position in its code
    temp,               \* air temperature argument (double)
    rh,                 \* humidity argument of calculateWetBulb, in ticks
    humidity,           \* humidity argument of findTempForWetBulbAndHumidity, in ticks
    targetWetBulb,      \* target argument (double)
    wetBulbTemp,        \* argument of getDangerLevel, in tenths
    low, high, mid,     \* bisection locals (doubles; mid starts undefined)
    iterations,
    calculatedWetBulb,  \* last estimate inside a bisection loop, in tenths
    minWB, minRH,       \* low-humidity scan locals
    evals,              \* number of calculateWetBulb calls made by this call
    result,             \* the returned value, once pc = "done" (tenths for temperatures)
    state,              \* the page's state object
    elements,           \* the values of the page's input elements
    curve,              \* the points pushed so far by the curve generator running
    temperatures,       \* the temperatures still to be visited by the sweep (doubles)
    anchorPoint,        \* the anchor point argument of generateIsothermCurve
    reachedZeroHumidity

vars == <<op, pc, temp, rh, humidity, targetWetBulb, wetBulbTemp, low, high, mid,
          iterations, calculatedWetBulb, minWB, minRH, evals, result,
          state, elements, curve, temperatures, anchorPoint, reachedZeroHumidity>>

\* the page's variables, which no call of the calculator touches
pageVars == <<state, elements, curve, temperatures, anchorPoint, reachedZeroHumidity>>

\* JavaScript values that are not doubles
Undefined == [undefined |-> TRUE]          \* "let mid;" before its first assignment
IsUndefined(v) == "undefined" \in DOMAIN v
NoResult == [kind |-> "none"]              \* the call has not returned
Num(v) == [kind |-> "number", value |-> v]
NaN == [kind |-> "NaN"]
Zero == Dbl(0, 0)

Null == [kind |-> "null"]

tolerance == Lit0_1

\* a cap that allows the loops a single pass
maxIterationsOnce == 50 \div 50

maxIterations == 50

\* part_000 lines 12-20: the state object as written; a number of the page
\* is held in tenths (Num(300) is 30)
InitialState ==
    [mode |-> "wetbulb-input",
     wetBulbTemp |-> Num(200),
     airTemp |-> Num(300),
     humidity |-> Num(500)]

\* part_000 lines 66-68: the warning banner with no inline display, no
\* class and no title yet
NoBanner == [display |-> "", classList |-> {}, title |-> ""]

\* part_000 lines 31-50: the six input elements, each with no text in it,
\* and the warning banner
BlankElements ==
    [wetbulbSlider |-> "", wetbulbInput |-> "",
     tempSlider |-> "", tempInput |-> "",
     humiditySlider |-> "", humidityInput |-> "",
     warningMessage |-> NoBanner]

\* the page while the calculator is called on its own
PageAtRest ==
    /\ state = InitialState
    /\ elements = BlankElements
    /\ curve = <<>> /\ temperatures = <<>>
    /\ anchorPoint = Null /\ reachedZeroHumidity = FALSE

\* locals before any statement of the call has run
NoCallYet ==
    /\ low = Zero /\ high = Zero /\ mid = Undefined
    /\ iterations = 0 /\ calculatedWetBulb = 0
    /\ minWB = 0 /\ minRH = Zero
    /\ evals = 0 /\ result = NoResult

FreshLocals ==
    /\ pc = "start"
    /\ NoCallYet
    /\ PageAtRest

Return(v) == pc' = "done" /\ result' = v

\* ------------------------------------------------------------------------
\* calculateWetBulb called on its own
\* ------------------------------------------------------------------------
InitEstimate ==
    /\ op = "calculateWetBulb"
    /\ \E t \in 0..MaxTempIn : temp = Fl(TICK * t)
    /\ \E h \in 0..100 : rh = TICK * h
    /\ humidity = 0 /\ targetWetBulb = Zero /\ wetBulbTemp = 0
    /\ FreshLocals

Estimate ==
    /\ op = "calculateWetBulb" /\ pc = "start"
    /\ Return(Num(calculateWetBulb(temp.n, rh)))
    /\ evals' = evals + 1
    /\ UNCHANGED <<pageVars, op, temp, rh, humidity, targetWetBulb, wetBulbTemp, low, high, mid,
                   iterations, calculatedWetBulb, minWB, minRH>>

\* ------------------------------------------------------------------------
\* findHumidityForWetBulb (lines 41-131)
\* ------------------------------------------------------------------------
InitHumidity ==
    /\ op = "findHumidityForWetBulb"
    /\ \E t \in 0..MaxTempIn : temp = Fl(TICK * t)
    \* targets: every tenth 0.0, 0.1, ... and every x.95
    /\ \E j \in 0..(20 * MaxTargetIn) :
          /\ (j % 2 = 0 \/ j % 20 = 19)
          /\ targetWetBulb = Fl(256 * j)
    /\ rh = 0 /\ humidity = 0 /\ wetBulbTemp = 0
    /\ FreshLocals

\* CheckUnreachable with the comparison turned round (targetWetBulb < temp)
CheckUnreachableReversed ==
    /\ op = "findHumidityForWetBulb" /\ pc = "start"
    /\ IF FlLt(targetWetBulb, temp)
       THEN Return(Num(-1))
       ELSE pc' = "saturation" /\ UNCHANGED result
    /\ UNCHANGED <<pageVars, op, temp, rh, humidity, targetWetBulb, wetBulbTemp, low, high, mid,
                   iterations, calculatedWetBulb, minWB, minRH, evals>>

\* lines 43-45
CheckUnreachable ==
    /\ op = "findHumidityForWetBulb" /\ pc = "start"
    /\ IF FlLt(temp, targetWetBulb)
       THEN Return(Num(-1))
       ELSE pc' = "saturation" /\ UNCHANGED result
    /\ UNCHANGED <<pageVars, op, temp, rh, humidity, targetWetBulb, wetBulbTemp, low, high, mid,
                   iterations, calculatedWetBulb, minWB, minRH, evals>>

\* CheckSaturation testing equality only (targetWetBulb === temp)
CheckSaturationExact ==
    /\ op = "findHumidityForWetBulb" /\ pc = "saturation"
    /\ IF targetWetBulb = temp
       THEN Return(Num(100))
       ELSE pc' = "artifact" /\ UNCHANGED result
    /\ UNCHANGED <<pageVars, op, temp, rh, humidity, targetWetBulb, wetBulbTemp, low, high, mid,
                   iterations, calculatedWetBulb, minWB, minRH, evals>>

\* lines 48-50
CheckSaturation ==
    /\ op = "findHumidityForWetBulb" /\ pc = "saturation"
    /\ IF FlLt(FlAbs(FlSub(targetWetBulb, temp)), Lit0_1)
       THEN Return(Num(100))
       ELSE pc' = "artifact" /\ UNCHANGED result
    /\ UNCHANGED <<pageVars, op, temp, rh, humidity, targetWetBulb, wetBulbTemp, low, high, mid,
                   iterations, calculatedWetBulb, minWB, minRH, evals>>

\* lines 69-73: the body of the scan loop and its rh += 0.1, on the loop
\* state s = [rh, minWB, minRH, n] (n counts the estimator calls), wb the
\* estimate at s.rh
ScanLowStep(s, wb) ==
    [rh |-> FlAdd(s.rh, Lit0_1),
     minWB |-> IF wb < s.minWB THEN wb ELSE s.minWB,
     minRH |-> IF wb < s.minWB THEN s.rh ELSE s.minRH,
     n |-> s.n + 1]

\* line 68: one pass while rh <= 3; the state stays as it is once the loop has ended
ScanLowPass(t, s) ==
    IF FlLe(s.rh, Lit3)
    THEN Val({ScanLowStep(s, wb) : wb \in {calculateWetBulb(t, s.rh.n)}})
    ELSE s

\* k passes in a row, the first half of them before the second half
RECURSIVE ScanLowPasses(_, _, _)
ScanLowPasses(t, s, k) ==
    IF k = 1 THEN ScanLowPass(t, s)
    ELSE Val({ScanLowPasses(t, a, k - k \div 2) : a \in {ScanLowPasses(t, s, k \div 2)}})

\* rh runs over 0, 0.1, ..., at most 31 values: 32 passes end the loop
MaxScanPasses == 32

\* lines 65-74: the whole scan, from minWB = minPossibleWB and minRH = 0
ScanLow(t, minPossibleWB) ==
    ScanLowPasses(t, [rh |-> Zero, minWB |-> minPossibleWB, minRH |-> Zero, n |-> 0],
                  MaxScanPasses)

\* ArtifactExit returning the sentinel where the code returns 0
ArtifactExitSentinel(s) ==
    /\ minWB' = s.minWB
    /\ minRH' = s.minRH
    /\ evals' = evals + 2 + s.n
    /\ IF FlLt(targetWetBulb, FlSub(Tenths(s.minWB), Lit0_1))
       THEN Return(Num(-1))
       ELSE IF FlLt(FlAbs(FlSub(targetWetBulb, Tenths(s.minWB))), Lit0_2)
            THEN Return(Num(MathRound(s.minRH)))
            ELSE pc' = "bisect" /\ UNCHANGED result

\* ArtifactExit without the return of lines 84-86: a target near the floor goes on
\* to the bisection
ArtifactExitNoFloor(s) ==
    /\ minWB' = s.minWB
    /\ minRH' = s.minRH
    /\ evals' = evals + 2 + s.n
    /\ IF FlLt(targetWetBulb, FlSub(Tenths(s.minWB), Lit0_1))
       THEN Return(Num(0))
       ELSE pc' = "bisect" /\ UNCHANGED result

\* lines 76-87: after the scan, s its outcome
ArtifactExit(s) ==
    /\ minWB' = s.minWB
    /\ minRH' = s.minRH
    /\ evals' = evals + 2 + s.n
    /\ IF FlLt(targetWetBulb, FlSub(Tenths(s.minWB), Lit0_1))
       THEN Return(Num(0))
       ELSE IF FlLt(FlAbs(FlSub(targetWetBulb, Tenths(s.minWB))), Lit0_2)
            THEN Return(Num(MathRound(s.minRH)))
            ELSE pc' = "bisect" /\ UNCHANGED result

\* lines 63-87
ArtifactCheck(minPossibleWB, wbAt3Percent) ==
    IF FlLt(targetWetBulb, Tenths(wbAt3Percent))
    THEN \E s \in {ScanLow(temp.n, minPossibleWB)} : ArtifactExit(s)
    ELSE /\ pc' = "bisect"
         /\ evals' = evals + 2
         /\ UNCHANGED <<minWB, minRH, result>>

\* lines 58-96
ArtifactZone ==
    /\ op = "findHumidityForWetBulb" /\ pc = "artifact"
    /\ ArtifactCheck(calculateWetBulb(temp.n, 0), calculateWetBulb(temp.n, 3 * TICK))
    /\ low' = Zero
    /\ high' = Lit100
    /\ UNCHANGED <<pageVars, op, temp, rh, humidity, targetWetBulb, wetBulbTemp, mid,
                   iterations, calculatedWetBulb>>

\* the loop body with the bound updates and iterations++ left out
BisectStuck(m, c, ret) ==
    /\ mid' = m
    /\ calculatedWetBulb' = c
    /\ evals' = evals
    /\ IF FlLt(FlAbs(FlSub(Tenths(c), targetWetBulb)), tolerance)
       THEN Return(ret) /\ UNCHANGED <<low, high, iterations>>
       ELSE UNCHANGED <<low, high, iterations, pc, result>>

\* lines 100-112 and 151-163: the loop body of both solvers, with m the
\* midpoint, c the estimate there and ret the value returned on a hit
Bisect(m, c, ret) ==
    /\ mid' = m
    /\ calculatedWetBulb' = c
    /\ evals' = evals + 1
    /\ IF FlLt(FlAbs(FlSub(Tenths(c), targetWetBulb)), tolerance)
       THEN Return(ret) /\ UNCHANGED <<low, high, iterations>>
       ELSE /\ IF FlLt(Tenths(c), targetWetBulb)
               THEN low' = FlAdd(m, Lit0_1) /\ UNCHANGED high
               ELSE high' = FlSub(m, Lit0_1) /\ UNCHANGED low
            /\ iterations' = iterations + 1
            /\ UNCHANGED <<pc, result>>

\* lines 99-103
BisectAt(m) ==
    \E c \in {calculateWetBulb(temp.n, m.n)} : Bisect(m, c, Num(MathRound(m)))

\* lines 98-113: one iteration of the while loop
BisectStep ==
    /\ op = "findHumidityForWetBulb" /\ pc = "bisect"
    /\ FlLe(low, high) /\ iterations < maxIterations
    /\ \E m \in {FlHalf(FlAdd(low, high))} : BisectAt(m)
    /\ UNCHANGED <<pageVars, op, temp, rh, humidity, targetWetBulb, wetBulbTemp, minWB, minRH>>

\* lines 124-127: the body of the fallback loop, diff the error at r percent
ScanAllStep(best, r, diff) ==
    IF FlLt(diff, best.bestDiff)
    THEN [bestHumidity |-> Fl(TICK * r), bestDiff |-> diff]
    ELSE best

\* Math.abs(this.calculateWetBulb(temp, rh) - targetWetBulb), hum in ticks
DiffAt(t, hum, target) == FlAbs(FlSub(Tenths(calculateWetBulb(t, hum)), target))

\* lines 120-128: for (rh = lo; rh <= hi; rh += 1), as [bestHumidity, bestDiff];
\* the range is walked in order, its lower half before its upper half
RECURSIVE ScanAll(_, _, _, _, _)
ScanAll(t, target, lo, hi, best) ==
    IF lo = hi
    THEN Val({ScanAllStep(best, lo, diff) : diff \in {DiffAt(t, TICK * lo, target)}})
    ELSE Val({ScanAll(t, target, (lo + hi) \div 2 + 1, hi, b) :
                b \in {ScanAll(t, target, lo, (lo + hi) \div 2, best)}})

\* lines 115-130: the loop has ended without a hit
Fallback ==
    /\ op = "findHumidityForWetBulb" /\ pc = "bisect"
    /\ ~(FlLe(low, high) /\ iterations < maxIterations)
    /\ Return(Num(MathRound(
          ScanAll(temp.n, targetWetBulb, 0, 100,
                  [bestHumidity |-> mid,
                   bestDiff |-> DiffAt(temp.n, mid.n, targetWetBulb)]).bestHumidity)))
    /\ evals' = evals + 102
    /\ UNCHANGED <<pageVars, op, temp, rh, humidity, targetWetBulb, wetBulbTemp, low, high, mid,
                   iterations, calculatedWetBulb, minWB, minRH>>

NextHumidity == CheckUnreachable \/ CheckSaturation \/ ArtifactZone \/ BisectStep \/ Fallback

\* ------------------------------------------------------------------------
\* findTempForWetBulbAndHumidity (lines 140-167)
\* ------------------------------------------------------------------------
InitTemperature ==
    /\ op = "findTempForWetBulbAndHumidity"
    /\ \E j \in 0..(10 * MaxTargetIn) : targetWetBulb = Fl(512 * j)
    /\ \E h \in 0..20 : humidity = TICK * 5 * h
    /\ temp = Zero /\ rh = 0 /\ wetBulbTemp = 0
    /\ FreshLocals

\* TempSetup with the search starting at 0 where the code starts at the target
TempSetupFromZero ==
    /\ op = "findTempForWetBulbAndHumidity" /\ pc = "start"
    /\ low' = Zero
    /\ high' = Fl(50 * TICK)
    /\ pc' = "bisect"
    /\ UNCHANGED <<pageVars, op, temp, rh, humidity, targetWetBulb, wetBulbTemp, mid, iterations,
                   calculatedWetBulb, minWB, minRH, evals, result>>

\* lines 142-147
TempSetup ==
    /\ op = "findTempForWetBulbAndHumidity" /\ pc = "start"
    /\ low' = targetWetBulb
    /\ high' = Fl(50 * TICK)
    /\ pc' = "bisect"
    /\ UNCHANGED <<pageVars, op, temp, rh, humidity, targetWetBulb, wetBulbTemp, mid, iterations,
                   calculatedWetBulb, minWB, minRH, evals, result>>

\* Math.round(mid * 10) / 10, in tenths; NaN when mid is undefined
RoundMid(m) == IF IsUndefined(m) THEN NaN ELSE Num(MathRound(FlMul10(m)))

\* lines 150-155
TempBisectAt(m) ==
    \E c \in {calculateWetBulb(m.n, humidity)} : Bisect(m, c, RoundMid(m))

\* lines 149-164: one iteration of the while loop
TempBisectStep ==
    /\ op = "findTempForWetBulbAndHumidity" /\ pc = "bisect"
    /\ FlLe(low, high) /\ iterations < maxIterations
    /\ \E m \in {FlHalf(FlAdd(low, high))} : TempBisectAt(m)
    /\ UNCHANGED <<pageVars, op, temp, rh, humidity, targetWetBulb, wetBulbTemp, minWB, minRH>>

\* line 166: the loop has ended without a hit
TempReturn ==
    /\ op = "findTempForWetBulbAndHumidity" /\ pc = "bisect"
    /\ ~(FlLe(low, high) /\ iterations < maxIterations)
    /\ Return(RoundMid(mid))
    /\ UNCHANGED <<pageVars, op, temp, rh, humidity, targetWetBulb, wetBulbTemp, low, high, mid,
                   iterations, calculatedWetBulb, minWB, minRH, evals>>

NextTemperature == TempSetup \/ TempBisectStep \/ TempReturn

\* ------------------------------------------------------------------------
\* getDangerLevel (lines 176-209)
\* ------------------------------------------------------------------------
\* getDangerLevel with inclusive upper limits (<= for <)
getDangerLevelInclusive(wb) ==
    IF wb <= 190
    THEN [level |-> "safe",
          description |-> "Safe conditions for normal activities",
          color |-> "#10b981"]
    ELSE IF wb <= 250
    THEN [level |-> "caution",
          description |-> "Increased caution - approaching limits for vulnerable populations",
          color |-> "#f59e0b"]
    ELSE IF wb <= 280
    THEN [level |-> "extreme",
          description |-> "Dangerous - many people cannot compensate, AC essential",
          color |-> "#f97316"]
    ELSE IF wb <= 310
    THEN [level |-> "danger",
          description |-> "Life-threatening - approaching human survivability limit",
          color |-> "#ef4444"]
    ELSE [level |-> "unsurvivable",
          description |-> "Beyond human adaptability - fatal without cooling",
          color |-> "#991b1b"]

\* getDangerLevel with the caution tier carrying the text and the color of the safe tier
getDangerLevelCopied(wb) ==
    IF wb < 190
    THEN [level |-> "safe",
          description |-> "Safe conditions for normal activities",
          color |-> "#10b981"]
    ELSE IF wb < 250
    THEN [level |-> "caution",
          description |-> "Safe conditions for normal activities",
          color |-> "#10b981"]
    ELSE IF wb < 280
    THEN [level |-> "extreme",
          description |-> "Dangerous - many people cannot compensate, AC essential",
          color |-> "#f97316"]
    ELSE IF wb < 310
    THEN [level |-> "danger",
          description |-> "Life-threatening - approaching human survivability limit",
          color |-> "#ef4444"]
    ELSE [level |-> "unsurvivable",
          description |-> "Beyond human adaptability - fatal without cooling",
          color |-> "#991b1b"]

getDangerLevel(wb) ==
    IF wb < 190
    THEN [level |-> "safe",
          description |-> "Safe conditions for normal activities",
          color |-> "#10b981"]
    ELSE IF wb < 250
    THEN [level |-> "caution",
          description |-> "Increased caution - approaching limits for vulnerable populations",
          color |-> "#f59e0b"]
    ELSE IF wb < 280
    THEN [level |-> "extreme",
          description |-> "Dangerous - many people cannot compensate, AC essential",
          color |-> "#f97316"]
    ELSE IF wb < 310
    THEN [level |-> "danger",
          description |-> "Life-threatening - approaching human survivability limit",
          color |-> "#ef4444"]
    ELSE [level |-> "unsurvivable",
          description |-> "Beyond human adaptability - fatal without cooling",
          color |-> "#991b1b"]

InitDanger ==
    /\ op = "getDangerLevel"
    /\ wetBulbTemp \in (-100)..(10 * MaxTargetIn)
    /\ temp = Zero /\ rh = 0 /\ humidity = 0 /\ targetWetBulb = Zero
    /\ FreshLocals

Classify ==
    /\ op = "getDangerLevel" /\ pc = "start"
    /\ Return(getDangerLevel(wetBulbTemp))
    /\ UNCHANGED <<pageVars, op, temp, rh, humidity, targetWetBulb, wetBulbTemp, low, high, mid,
                   iterations, calculatedWetBulb, minWB, minRH, evals>>

SpecEstimate == InitEstimate /\ [][Estimate]_vars
SpecHumidity == InitHumidity /\ [][NextHumidity]_vars
SpecTemperature == InitTemperature /\ [][NextTemperature]_vars
SpecDanger == InitDanger /\ [][Classify]_vars

\* both solvers, each call running to its return statement
NextSolvers == NextHumidity \/ NextTemperature
SpecSolvers == (InitHumidity \/ InitTemperature) /\ [][NextSolvers]_vars
FairSolvers == SpecSolvers /\ WF_vars(NextSolvers)

\* ------------------------------------------------------------------------
\* Properties of findHumidityForWetBulb
\* ------------------------------------------------------------------------
Done == pc = "done"
InDomain == ~FlLt(temp, targetWetBulb)          \* targetWetBulb <= temp

\* C1: for every input with targetWetBulb > temp the call returns -1 straight
\* from its first test: no estimator call, no loop iteration, no midpoint.
C1_UnreachableSentinel ==
    (op = "findHumidityForWetBulb" /\ targetWetBulb.n > temp.n) =>
        /\ pc \in {"start", "done"}
        /\ Done => result = Num(-1)
        /\ evals = 0 /\ iterations = 0 /\ IsUndefined(mid)

\* findHumidityForWetBulb(20, 25) has returned -1
C1_Witness ==
    /\ Done /\ temp = Fl(20 * TICK) /\ targetWetBulb = Fl(25 * TICK)
    /\ result = Num(-1)

\* C2: with targetWetBulb <= temp every exit path returns a whole percentage
\* in 0..100, and -1 is returned only when targetWetBulb > temp.
C2_PercentageOrSentinel ==
    (op = "findHumidityForWetBulb" /\ Done) =>
        /\ result.kind = "number"
        /\ InDomain => result.value \in 0..100
        /\ result.value = -1 => ~InDomain
        /\ result.value \in (-1)..100

\* the fallback scan has returned a percentage
C2_Witness ==
    /\ Done /\ InDomain /\ FlLt(high, low) /\ result.value \in 0..100

\* C3: with targetWetBulb <= temp and temp - targetWetBulb < 0.1 the call
\* returns exactly 100 before any estimator call or loop iteration.
C3_SaturationShortcut ==
    (op = "findHumidityForWetBulb" /\ targetWetBulb.n <= temp.n
        /\ temp.n - targetWetBulb.n < TICK \div 10) =>
        /\ pc \in {"start", "saturation", "done"}
        /\ Done => result = Num(100)
        /\ evals = 0 /\ iterations = 0 /\ IsUndefined(mid)

\* findHumidityForWetBulb(25, 24.95) has returned 100
C3_Witness ==
    /\ Done /\ temp = Fl(25 * TICK) /\ targetWetBulb = Fl(25 * TICK - TICK \div 20)
    /\ result = Num(100)

\* ------------------------------------------------------------------------
\* Properties of getDangerLevel
\* ------------------------------------------------------------------------
Tiers == <<"safe", "caution", "extreme", "danger", "unsurvivable">>
TierRank(level) == CHOOSE i \in 1..5 : Tiers[i] = level

\* C4: every value gets exactly one tier, with lower-inclusive thresholds
\* 19, 25, 28 and 31 degrees; the tier never decreases as the value grows.
C4_DangerTiers ==
    (op = "getDangerLevel" /\ Done) =>
        /\ result.level \in {Tiers[i] : i \in 1..5}
        /\ (result.level = "safe") = (wetBulbTemp < 190)
        /\ (result.level = "caution") = (190 <= wetBulbTemp /\ wetBulbTemp < 250)
        /\ (result.level = "extreme") = (250 <= wetBulbTemp /\ wetBulbTemp < 280)
        /\ (result.level = "danger") = (280 <= wetBulbTemp /\ wetBulbTemp < 310)
        /\ (result.level = "unsurvivable") = (310 <= wetBulbTemp)
        /\ wetBulbTemp = 189 => result.level = "safe"
        /\ wetBulbTemp = 190 => result.level = "caution"
        /\ wetBulbTemp = 309 => result.level = "danger"
        /\ wetBulbTemp = 310 => result.level = "unsurvivable"
        /\ TierRank(getDangerLevel(wetBulbTemp - 1).level) <= TierRank(result.level)

\* getDangerLevel(31.0) has returned the top tier
C4_Witness ==
    /\ op = "getDangerLevel" /\ Done /\ wetBulbTemp = 310
    /\ result.level = "unsurvivable"

\* ------------------------------------------------------------------------
\* Properties of both solvers
\* ------------------------------------------------------------------------
\* statements left before the return: the position in the code, then the
\* loop iterations the cap still allows
PcRank ==
    CASE pc = "start" -> 4
      [] pc = "saturation" -> 3
      [] pc = "artifact" -> 2
      [] pc = "bisect" -> 1
      [] pc = "done" -> 0
Rank == PcRank * (maxIterations + 1) + (maxIterations - iterations)

\* C5: every call of either solver returns, and its loop runs at most
\* maxIterations = 50 times, for every input (temp = 0, humidity = 0 and
\* boundary targets included) and whether or not the tolerance is ever met:
\* every statement executed brings the natural number Rank strictly down.
C5_SolversTerminate ==
    /\ [](iterations <= maxIterations /\ Rank >= 0)
    /\ [][Rank' < Rank]_vars

\* findTempForWetBulbAndHumidity at humidity 0 has returned after its
\* interval ran empty without a hit
C5_Witness ==
    /\ Done /\ op = "findTempForWetBulbAndHumidity" /\ humidity = 0
    /\ iterations > 0 /\ FlLt(high, low)

\* ------------------------------------------------------------------------
\* Properties of findTempForWetBulbAndHumidity
\* ------------------------------------------------------------------------
\* C6: the call returns a number (a midpoint rounded to one decimal) for
\* every target and humidity, targets above 50 included.
C6_AlwaysNumeric ==
    (op = "findTempForWetBulbAndHumidity" /\ Done) => result.kind = "number"

\* ------------------------------------------------------------------------
\* Round trip: calculateWetBulb(T, RH) handed to findHumidityForWetBulb(T, .)
\* ------------------------------------------------------------------------
LocalsAtEntry == NoCallYet /\ PageAtRest

InitRoundTrip ==
    /\ op = "findHumidityForWetBulb" /\ pc = "estimate"
    /\ \E t \in 0..MaxTempIn : temp = Fl(TICK * t)
    /\ \E h \in 3..100 : rh = TICK * h
    /\ humidity = 0 /\ targetWetBulb = Zero /\ wetBulbTemp = 0
    /\ LocalsAtEntry

\* the caller evaluates the estimator and passes its value as the target
EstimateTarget ==
    /\ pc = "estimate"
    /\ wetBulbTemp' = calculateWetBulb(temp.n, rh)
    /\ targetWetBulb' = Tenths(wetBulbTemp')
    /\ pc' = "start"
    /\ UNCHANGED <<pageVars, op, temp, rh, humidity, low, high, mid, iterations,
                   calculatedWetBulb, minWB, minRH, evals, result>>

NextRoundTrip == EstimateTarget \/ NextHumidity
SpecRoundTrip == InitRoundTrip /\ [][NextRoundTrip]_vars

\* C7: for every temperature and every RH of 3 % or more, the humidity found
\* for the estimated wet-bulb temperature is within one percentage point of RH
C7_RoundTrip ==
    (Done /\ rh >= 3 * TICK) => Abs(result.value - rh \div TICK) <= 1

\* ------------------------------------------------------------------------
\* findHumidityForWetBulb at the half-degree temperatures of the hot range,
\* where the bisection most often ends without a hit
\* ------------------------------------------------------------------------
HotFrom == 40
InitHotHumidity ==
    /\ op = "findHumidityForWetBulb"
    /\ \E k \in (2 * HotFrom)..(2 * MaxTempIn) : temp = Fl((TICK \div 2) * k)
    /\ \E j \in 150..(5 * MaxTargetIn + 20) : targetWetBulb = Fl(512 * j)
    /\ rh = 0 /\ humidity = 0 /\ wetBulbTemp = 0
    /\ FreshLocals

\* the call returned from the fallback: the while loop ran out of interval
FallbackReturned == op = "findHumidityForWetBulb" /\ Done /\ FlLt(high, low)

\* lines 120-128 run once more by the caller, starting from the returned
\* humidity: rh becomes the first whole percent whose error is strictly below
\* every error before it, the returned humidity's included
AuditFallback ==
    /\ FallbackReturned
    /\ pc' = "audited"
    /\ rh' = ScanAll(temp.n, targetWetBulb, 0, 100,
                     [bestHumidity |-> Fl(TICK * result.value),
                      bestDiff |-> DiffAt(temp.n, TICK * result.value, targetWetBulb)]
                    ).bestHumidity.n
    /\ UNCHANGED <<pageVars, op, temp, humidity, targetWetBulb, wetBulbTemp, low, high, mid,
                   iterations, calculatedWetBulb, minWB, minRH, evals, result>>

NextHotHumidity == NextHumidity \/ AuditFallback
SpecHotHumidity == InitHotHumidity /\ [][NextHotHumidity]_vars

\* C8: after the fallback no whole-percent humidity has a strictly smaller
\* absolute error to the target than the returned humidity has
C8_FallbackMinimises ==
    pc = "audited" => rh = TICK * result.value

InitSweep ==
    /\ op = "calculateWetBulb" /\ pc = "sweep"
    /\ \E t \in 0..MaxTempIn : temp = Fl(TICK * t)
    /\ rh = 0 /\ humidity = 0 /\ targetWetBulb = Zero /\ wetBulbTemp = 0
    /\ LocalsAtEntry

SweepStep ==
    /\ op = "calculateWetBulb" /\ pc = "sweep"
    /\ rh <= 100 * TICK
    /\ calculatedWetBulb' = calculateWetBulb(temp.n, rh)
    /\ wetBulbTemp' = calculatedWetBulb
    /\ rh' = rh + TICK
    /\ evals' = evals + 1
    /\ UNCHANGED <<pageVars, op, pc, temp, humidity, targetWetBulb, low, high, mid, iterations,
                   minWB, minRH, result>>

SpecSweep == InitSweep /\ [][SweepStep]_vars

\* C10: at a fixed air temperature the estimate does not fall from one whole
\* percent of humidity to the next, from 3 % upwards
C10_MonotoneFromThree ==
    (pc = "sweep" /\ rh >= 5 * TICK) => wetBulbTemp <= calculatedWetBulb

\* C11: at 100 % humidity the estimate equals the air temperature to within
\* one step of the rounded output, 0.1 degrees
C11_SaturationIdentity ==
    (op = "calculateWetBulb" /\ Done /\ rh = 100 * TICK) =>
        Abs(result.value - (10 * temp.n) \div TICK) <= 1

\* the description column of the specification's threshold table
TableDescription ==
    [safe |-> "Safe for normal activity",
     caution |-> "Vulnerable populations approach limits",
     extreme |-> "Many cannot compensate; cooling essential",
     danger |-> "Approaching survivability limit",
     unsurvivable |-> "Fatal without active cooling"]

\* C13 as stated: every result carries the description the threshold table
\* lists for its tier
C13_TableDescriptions ==
    (op = "getDangerLevel" /\ Done) => result.description = TableDescription[result.level]

\* the texts and colors of lines 178-206, by tier
TierText ==
    [safe |-> [description |-> "Safe conditions for normal activities",
               color |-> "#10b981"],
     caution |-> [description |-> "Increased caution - approaching limits for vulnerable populations",
                  color |-> "#f59e0b"],
     extreme |-> [description |-> "Dangerous - many people cannot compensate, AC essential",
                  color |-> "#f97316"],
     danger |-> [description |-> "Life-threatening - approaching human survivability limit",
                 color |-> "#ef4444"],
     unsurvivable |-> [description |-> "Beyond human adaptability - fatal without cooling",
                       color |-> "#991b1b"]]

\* C13: every result carries the one description and the one color of its
\* tier, so two inputs of the same tier get the same description and color;
\* the five descriptions and the five colors are pairwise different
C13_FixedTextPerTier ==
    /\ (op = "getDangerLevel" /\ Done) =>
          /\ result.level \in DOMAIN TierText
          /\ result.description = TierText[result.level].description
          /\ result.color = TierText[result.level].color
    /\ \A a, b \in DOMAIN TierText :
          a # b => /\ TierText[a].description # TierText[b].description
                   /\ TierText[a].color # TierText[b].color

C13_Witness ==
    /\ op = "getDangerLevel" /\ Done /\ wetBulbTemp = 200
    /\ result.description = "Increased caution - approaching limits for vulnerable populations"
    /\ result.color = "#f59e0b"

\* the artifact branch of lines 63-87 ran: the target is below the estimate
\* at 3 %, and minWB, minRH hold the floor the scan found
BelowThreePercent ==
    /\ op = "findHumidityForWetBulb" /\ pc \in {"bisect", "done"}
    /\ evals > 2
    /\ targetWetBulb.n < 512 * calculateWetBulb(temp.n, 3 * TICK)

\* C14: a target below the estimate at 3 % and more than 0.1 below the floor
\* of the 0..3 scan is answered with 0, before any bisection
C14_BelowFloorReturnsZero ==
    (targetWetBulb.n < 512 * minWB - 512 /\ BelowThreePercent) =>
        /\ Done /\ result = Num(0)
        /\ iterations = 0 /\ IsUndefined(mid)

\* a floor found inside the scanned range, and a target below it
C14_Witness ==
    /\ op = "findHumidityForWetBulb" /\ Done /\ result = Num(0)
    /\ targetWetBulb.n < 512 * minWB - 512
    /\ FlLt(Zero, minRH) /\ evals = 32

\* the target is less than 0.2 away from the floor value minWB
NearFloor ==
    /\ targetWetBulb.n - 512 * minWB < 1024
    /\ 512 * minWB - targetWetBulb.n < 1024

\* the artifact branch returned the floor point
FloorPointReturned ==
    /\ Done /\ result = Num(MathRound(minRH))
    /\ result.value \in 0..3
    /\ iterations = 0 /\ IsUndefined(mid)

\* C15 as stated: every target below the estimate at 3 % and within 0.2 of the
\* floor is answered with the floor point's humidity
C15_NearFloorReturnsFloor ==
    (NearFloor /\ BelowThreePercent) => FloorPointReturned

\* C15: a target below the estimate at 3 %, within 0.2 of the floor and less
\* than 0.1 below it, is answered with the floor point's humidity rounded to
\* an integer in 0..3, before any bisection
C15_NearFloorNotBelowMargin ==
    (NearFloor /\ targetWetBulb.n > 512 * minWB - 512 /\ BelowThreePercent) =>
        FloorPointReturned

\* a floor point inside the scanned range is returned
C15_Witness ==
    /\ op = "findHumidityForWetBulb" /\ Done /\ evals = 32
    /\ NearFloor /\ targetWetBulb.n > 512 * minWB - 512
    /\ result = Num(3) /\ FlLt(minRH, Lit3)

\* one pass of the while loop of lines 98-113 is about to run
HumidityLoopRuns ==
    /\ op = "findHumidityForWetBulb" /\ pc = "bisect"
    /\ FlLe(low, high) /\ iterations < maxIterations

\* C16: every pass of the humidity bisection evaluates the estimator at
\* mid = (low + high) / 2; a midpoint whose estimate is less than 0.1 from the
\* target ends the call with round(mid), and a call that ends in the loop
\* ends with an estimate at most 0.1 from the target; otherwise low goes
\* above mid when the estimate is below the target and high goes below mid
\* when it is not, the other bound stays, and 0 <= low and high <= 100 throughout
C16_BisectionStep ==
    /\ [](op = "findHumidityForWetBulb" /\ pc = "bisect" =>
             FlLe(Zero, low) /\ FlLe(high, Lit100))
    /\ [][HumidityLoopRuns =>
            /\ mid' = FlHalf(FlAdd(low, high))
            /\ FlLe(low, mid') /\ FlLe(mid', high)
            /\ calculatedWetBulb' = calculateWetBulb(temp.n, mid'.n)
            /\ Abs(512 * calculatedWetBulb' - targetWetBulb.n) < 512 => pc' = "done"
            /\ pc' = "done" =>
                  /\ Abs(512 * calculatedWetBulb' - targetWetBulb.n) <= 512
                  /\ result' = Num(MathRound(mid'))
                  /\ low' = low /\ high' = high
            /\ pc' # "done" =>
                  /\ pc' = "bisect" /\ iterations' = iterations + 1
                  /\ IF 512 * calculatedWetBulb' < targetWetBulb.n
                     THEN FlLt(mid', low') /\ high' = high
                     ELSE FlLt(high', mid') /\ low' = low
                  /\ FlLe(low, low') /\ FlLe(high', high)
                  /\ FlLt(low, low') \/ FlLt(high', high)]_vars

\* a call that moved both bounds and then met the tolerance
C16_Witness ==
    /\ op = "findHumidityForWetBulb" /\ Done
    /\ iterations >= 3 /\ FlLt(Zero, low) /\ FlLt(high, Lit100) /\ FlLe(low, high)
    /\ ~IsUndefined(mid) /\ result = Num(MathRound(mid))

\* C17: for every target of at most 50 degrees on the 0.1 grid and every
\* humidity, findTempForWetBulbAndHumidity returns a temperature from the
\* target up to 50 degrees (result in tenths)
C17_TempWithinBounds ==
    (op = "findTempForWetBulbAndHumidity" /\ Done /\ targetWetBulb.n <= 50 * TICK) =>
        /\ result.kind = "number"
        /\ 512 * result.value >= targetWetBulb.n
        /\ result.value <= 500

\* a temperature strictly between the target and the ceiling, found by bisection
C17_Witness ==
    /\ op = "findTempForWetBulbAndHumidity" /\ Done
    /\ targetWetBulb.n <= 50 * TICK /\ iterations > 2
    /\ result.kind = "number"
    /\ 512 * result.value > targetWetBulb.n /\ result.value < 500

\* C18: findTempForWetBulbAndHumidity returns a midpoint it evaluated, rounded
\* to one decimal: the first one whose estimate is within 0.1 of the target,
\* and the last one evaluated when none is
C18_ReturnsMidpoint ==
    (op = "findTempForWetBulbAndHumidity" /\ Done) =>
        /\ ~IsUndefined(mid) /\ evals > 0
        /\ result = Num(MathRound(FlMul10(mid)))
        /\ calculatedWetBulb = calculateWetBulb(mid.n, humidity)

\* ------------------------------------------------------------------------
\* findHumidityForWetBulb as one call: the value a caller receives
\* ------------------------------------------------------------------------
\* lines 105-111 of wet-bulb-calculator.js: the bounds after a miss at m
BisectNarrow(s, target, m, c) ==
    IF FlLt(Tenths(c), target)
    THEN [s EXCEPT !.low = FlAdd(m, Lit0_1), !.mid = m, !.iterations = s.iterations + 1]
    ELSE [s EXCEPT !.high = FlSub(m, Lit0_1), !.mid = m, !.iterations = s.iterations + 1]

\* lines 100-112: the loop body on the loop state s = [low, high, mid,
\* iterations, hit], with c the estimate at the midpoint m
BisectBody(s, target, m, c) ==
    IF FlLt(FlAbs(FlSub(Tenths(c), target)), tolerance)
    THEN [s EXCEPT !.mid = m, !.hit = TRUE]
    ELSE BisectNarrow(s, target, m, c)

BisectBodyAt(t, target, s, m) ==
    Val({BisectBody(s, target, m, c) : c \in {calculateWetBulb(t, m.n)}})

\* line 98: one pass of the while loop; the state stays as it is once the
\* loop has ended
BisectPass(t, target, s) ==
    IF ~s.hit /\ FlLe(s.low, s.high) /\ s.iterations < maxIterations
    THEN Val({BisectBodyAt(t, target, s, m) : m \in {FlHalf(FlAdd(s.low, s.high))}})
    ELSE s

\* k passes in a row, the first half of them before the second half
RECURSIVE BisectPasses(_, _, _, _)
BisectPasses(t, target, s, k) ==
    IF k = 1 THEN BisectPass(t, target, s)
    ELSE Val({BisectPasses(t, target, a, k - k \div 2) :
                a \in {BisectPasses(t, target, s, k \div 2)}})

\* lines 115-130: the value returned after a loop without a hit
FallbackValue(t, target, m) ==
    MathRound(ScanAll(t, target, 0, 100,
                      [bestHumidity |-> m,
                       bestDiff |-> DiffAt(t, m.n, target)]).bestHumidity)

\* lines 90-130
BisectResult(t, target, s) ==
    IF s.hit THEN MathRound(s.mid) ELSE FallbackValue(t, target, s.mid)

\* lines 89-130: maxIterations passes run the loop to its end
BisectionValue(t, target) ==
    Val({BisectResult(t, target, s) :
           s \in {BisectPasses(t, target,
                               [low |-> Zero, high |-> Lit100, mid |-> Undefined,
                                iterations |-> 0, hit |-> FALSE],
                               maxIterations)}})

\* lines 76-87, s the outcome of the low-humidity scan
ArtifactValue(t, target, s) ==
    IF FlLt(target, FlSub(Tenths(s.minWB), Lit0_1)) THEN 0
    ELSE IF FlLt(FlAbs(FlSub(target, Tenths(s.minWB))), Lit0_2) THEN MathRound(s.minRH)
    ELSE BisectionValue(t, target)

\* lines 57-130
ArtifactOrBisection(t, target, minPossibleWB, wbAt3Percent) ==
    IF FlLt(target, Tenths(wbAt3Percent))
    THEN Val({ArtifactValue(t, target, s) : s \in {ScanLow(t, minPossibleWB)}})
    ELSE BisectionValue(t, target)

\* lines 41-131: t and target are doubles
findHumidityForWetBulb(t, target) ==
    IF FlLt(t, target) THEN -1
    ELSE IF FlLt(FlAbs(FlSub(target, t)), Lit0_1) THEN 100
    ELSE Val({ArtifactOrBisection(t.n, target, w0, w3) :
                w0 \in {calculateWetBulb(t.n, 0)},
                w3 \in {calculateWetBulb(t.n, 3 * TICK)}})

\* the step-by-step solver and the one-call solver return the same value
StepsAgreeWithCall ==
    (op = "findHumidityForWetBulb" /\ pc = "done")
        => result = Num(findHumidityForWetBulb(temp, targetWetBulb))

\* ------------------------------------------------------------------------
\* The chart's curve generators (part_000 lines 1054-1178)
\* ------------------------------------------------------------------------
Lit0_5 == Fl(TICK \div 2)
Lit50 == Fl(50 * TICK)

\* Math.abs(a - b) < 0.01: 0.01 is 51.2 ticks, and every double held lies
\* within a small fraction of a tick of a tick value
Within0_01(a, b) == Abs(a.n - b.n) <= 51

\* line 1054
wetBulbTemps == <<19, 25, 28, 31>>

\* the largest wet-bulb value a curve is drawn for, in degrees
MaxWetBulbIn == 40

\* the readings of temp-humidity mode a curve is anchored at
AnchorTemps == {20, 26, 27, 35, 41, 50}
AnchorHumidities == {0, 5, 20, 50, 100}

\* lines 1107-1108 and 1067: no point and no temperature yet; no solver
\* call made
CurveAtEntry ==
    /\ curve = <<>> /\ temperatures = <<>> /\ reachedZeroHumidity = FALSE
    /\ state = InitialState /\ elements = BlankElements
    /\ rh = 0 /\ humidity = 0 /\ targetWetBulb = Zero
    /\ NoCallYet

\* lines 1181-1222 (updateChart): the curve is asked for state.wetBulbTemp
\* with no anchor, or for the estimate at a reading with that reading as anchor
InitCurve ==
    /\ op = "generateIsothermCurve" /\ pc = "start"
    /\ \/ /\ \E w \in 0..(2 * MaxWetBulbIn) : wetBulbTemp = 5 * w
          /\ anchorPoint = Null
       \/ \E a \in AnchorTemps, h \in AnchorHumidities :
             /\ wetBulbTemp = calculateWetBulb(TICK * a, TICK * h)
             /\ wetBulbTemp >= 0
             /\ anchorPoint = [temp |-> Fl(TICK * a), humidity |-> h]
    /\ temp = Tenths(wetBulbTemp)
    /\ CurveAtEntry

\* line 1053: generateIsothermDatasets takes no argument
InitDatasets ==
    /\ op = "generateIsothermDatasets" /\ pc = "sweep"
    /\ wetBulbTemp = 10 * wetBulbTemps[1]
    /\ temp = Tenths(wetBulbTemp)
    /\ anchorPoint = Null
    /\ CurveAtEntry

InitCurves == InitCurve \/ InitDatasets

\* what the curve generators leave alone
sweepKept == <<rh, humidity, targetWetBulb, low, high, mid, iterations,
               calculatedWetBulb, minWB, minRH, evals, state, elements>>

\* the plotted point with the humidity's distance from saturation as y
PlotPointDeficit(x, h, wbt) == [x |-> x, y |-> h - 100, wetBulb |-> wbt]

\* lines 1074-1078 and 1158-1162: the object pushed
PlotPoint(x, h, wbt) == [x |-> x, y |-> h, wetBulb |-> wbt]

\* lines 1111-1113: one pass of the loop that collects the temperatures
CurveCollect ==
    /\ op = "generateIsothermCurve" /\ pc = "start"
    /\ FlLe(temp, Lit50)
    /\ temperatures' = Append(temperatures, temp)
    /\ temp' = FlAdd(temp, Lit0_5)
    /\ UNCHANGED <<op, pc, wetBulbTemp, result, curve, anchorPoint, reachedZeroHumidity>>
    /\ UNCHANGED sweepKept

\* lines 1124-1125: push, then sort by value
InsertSorted(s, a) ==
    Val({SubSeq(s, 1, k) \o <<a>> \o SubSeq(s, k + 1, Len(s)) :
           k \in {Cardinality({i \in DOMAIN s : FlLe(s[i], a)})}})

\* lines 1116-1127
WithAnchorTemp(s) ==
    IF /\ anchorPoint # Null
       /\ FlLe(Tenths(wetBulbTemp), anchorPoint.temp)
       /\ ~\E i \in DOMAIN s : Within0_01(s[i], anchorPoint.temp)
    THEN InsertSorted(s, anchorPoint.temp)
    ELSE s

\* lines 1111-1130: the collecting loop has ended
CurveAnchor ==
    /\ op = "generateIsothermCurve" /\ pc = "start"
    /\ ~FlLe(temp, Lit50)
    /\ temperatures' = WithAnchorTemp(temperatures)
    /\ reachedZeroHumidity' = FALSE
    /\ pc' = "sweep"
    /\ UNCHANGED <<op, temp, wetBulbTemp, result, curve, anchorPoint>>
    /\ UNCHANGED sweepKept

\* lines 1141-1151: the anchor's own reading is plotted
CurveAtAnchor ==
    /\ curve' = Append(curve, PlotPoint(anchorPoint.temp, anchorPoint.humidity, wetBulbTemp))
    /\ reachedZeroHumidity' = (anchorPoint.humidity = 0)
    /\ UNCHANGED <<pc, result>>

\* CurveAtSolved without the flag of lines 1165-1167: the sweep goes on after
\* a point at 0 %
CurveAtSolvedNoStop(t, h) ==
    /\ result' = Num(h)
    /\ IF h >= 0 /\ h <= 100
       THEN /\ curve' = Append(curve, PlotPoint(t, h, wetBulbTemp))
            /\ reachedZeroHumidity' = FALSE
            /\ UNCHANGED pc
       ELSE /\ IF h < 0 THEN pc' = "done" ELSE UNCHANGED pc
            /\ UNCHANGED <<curve, reachedZeroHumidity>>

\* lines 1152-1172, h the solver's answer
CurveAtSolved(t, h) ==
    /\ result' = Num(h)
    /\ IF h >= 0 /\ h <= 100
       THEN /\ curve' = Append(curve, PlotPoint(t, h, wetBulbTemp))
            /\ reachedZeroHumidity' = (h = 0)
            /\ UNCHANGED pc
       ELSE /\ IF h < 0 THEN pc' = "done" ELSE UNCHANGED pc
            /\ UNCHANGED <<curve, reachedZeroHumidity>>

\* lines 1133-1174: one pass of the loop over the temperatures
CurveStep ==
    /\ op = "generateIsothermCurve" /\ pc = "sweep"
    /\ temperatures # <<>>
    /\ temp' = Head(temperatures)
    /\ temperatures' = Tail(temperatures)
    /\ IF reachedZeroHumidity
       THEN pc' = "done" /\ UNCHANGED <<result, curve, reachedZeroHumidity>>
       ELSE IF anchorPoint # Null /\ Within0_01(Head(temperatures), anchorPoint.temp)
            THEN CurveAtAnchor
            ELSE \E h \in {findHumidityForWetBulb(Head(temperatures), Tenths(wetBulbTemp))} :
                    CurveAtSolved(Head(temperatures), h)
    /\ UNCHANGED <<op, wetBulbTemp, anchorPoint>>
    /\ UNCHANGED sweepKept

\* line 1177: every temperature has been visited
CurveReturn ==
    /\ op = "generateIsothermCurve" /\ pc = "sweep"
    /\ temperatures = <<>>
    /\ pc' = "done"
    /\ UNCHANGED <<op, temp, wetBulbTemp, result, curve, temperatures, anchorPoint,
                   reachedZeroHumidity>>
    /\ UNCHANGED sweepKept

\* lines 1071-1079, h the solver's answer
DatasetAtSolved(t, h) ==
    /\ result' = Num(h)
    /\ curve' = IF h >= 0 /\ h <= 100
                THEN Append(curve, PlotPoint(t, h, wetBulbTemp))
                ELSE curve

\* lines 1070-1080: one pass of the loop over temp; curve holds the points
\* of every data array in the order pushed
DatasetStep ==
    /\ op = "generateIsothermDatasets" /\ pc = "sweep"
    /\ FlLe(temp, Lit50)
    /\ \E h \in {findHumidityForWetBulb(temp, Tenths(wetBulbTemp))} : DatasetAtSolved(temp, h)
    /\ temp' = FlAdd(temp, Lit0_5)
    /\ UNCHANGED <<op, pc, wetBulbTemp, temperatures, anchorPoint, reachedZeroHumidity>>
    /\ UNCHANGED sweepKept

\* the position of wbt in wetBulbTemps
IndexOfWbt(wbt) == CHOOSE i \in DOMAIN wetBulbTemps : 10 * wetBulbTemps[i] = wbt

\* lines 1083-1097: the data array is stored and forEach moves on
DatasetPush ==
    /\ op = "generateIsothermDatasets" /\ pc = "sweep"
    /\ ~FlLe(temp, Lit50)
    /\ IF IndexOfWbt(wetBulbTemp) < Len(wetBulbTemps)
       THEN /\ wetBulbTemp' = 10 * wetBulbTemps[IndexOfWbt(wetBulbTemp) + 1]
            /\ temp' = Tenths(wetBulbTemp')
            /\ UNCHANGED pc
       ELSE /\ pc' = "done"
            /\ UNCHANGED <<wetBulbTemp, temp>>
    /\ UNCHANGED <<op, result, curve, temperatures, anchorPoint, reachedZeroHumidity>>
    /\ UNCHANGED sweepKept

NextCurves ==
    CurveCollect \/ CurveAnchor \/ CurveStep \/ CurveReturn \/ DatasetStep \/ DatasetPush

SpecCurves == InitCurves /\ [][NextCurves]_vars

CurveRunning == op \in {"generateIsothermCurve", "generateIsothermDatasets"}

\* the point pushed by this step: the anchor's own reading
AnchorPushed == anchorPoint # Null /\ curve'[Len(curve')].x = anchorPoint.temp

MaxTenths == 1000

Digit(d) == <<"0", "1", "2", "3", "4", "5", "6", "7", "8", "9">>[d + 1]

RECURSIVE Digits(_)
Digits(n) == IF n < 10 THEN Digit(n) ELSE Digits(n \div 10) \o Digit(n % 10)

\* the decimal text of t tenths, t >= 0: "26", "26.1"
Decimal(t) ==
    IF t % 10 = 0 THEN Digits(t \div 10) ELSE Digits(t \div 10) \o "." \o Digit(t % 10)

\* String(value)
String(v) ==
    IF v = NaN THEN "NaN"
    ELSE IF v.value < 0 THEN "-" \o Decimal(-v.value)
    ELSE Decimal(v.value)

NumberTexts == [t \in (-MaxTenths)..MaxTenths |-> String(Num(t))]

\* the number, in tenths, that a number's text stands for
NumberOfText ==
    [text \in {NumberTexts[t] : t \in DOMAIN NumberTexts} |->
        CHOOSE t \in DOMAIN NumberTexts : NumberTexts[t] = text]

\* parseFloat(text) for the texts of the page: the text of a number gives
\* that number, any other text ("", "abc", "NaN") gives NaN
parseFloat(text) ==
    IF text \in DOMAIN NumberOfText THEN Num(NumberOfText[text]) ELSE NaN

\* parseFloat(text) || 0
OrZero(v) == IF v = NaN THEN Num(0) ELSE v

\* Math.max(lo, Math.min(hi, value)) for a number, all in tenths
Clamp(lo, hi, v) ==
    IF v.value > hi THEN Num(hi) ELSE IF v.value < lo THEN Num(lo) ELSE v

\* wetBulbCalculator.calculateWetBulb on numbers of the page: NaN for a NaN argument
EstimateOf(airTemp, hum) ==
    IF airTemp = NaN \/ hum = NaN THEN NaN
    ELSE Num(calculateWetBulb(512 * airTemp.value, 512 * hum.value))

\* wetBulbTemp < k and wetBulbTemp >= k for a number of the page, k in
\* tenths: both are false of NaN
NumLt(v, k) == v # NaN /\ v.value < k
NumGe(v, k) == v # NaN /\ v.value >= k

\* lines 396-413, on the banner w
updateWarningMessage(w, wb) ==
    IF NumGe(wb, 310)
    THEN [w EXCEPT !.display = "block", !.title = "Extreme Danger!"]
    ELSE IF NumGe(wb, 280)
    THEN [w EXCEPT !.display = "block", !.title = "High Caution!"]
    ELSE [w EXCEPT !.display = "none"]

\* lines 360-393, as far as the banner goes (the bar's width and gradient
\* are left out)
updateDangerIndicator(w, wb) == updateWarningMessage(w, wb)

\* lines 430-453, on a banner whose warning classes have been removed
DisplayTier(w, wb) ==
    IF NumLt(wb, 190)
    THEN [w EXCEPT !.display = "none"]
    ELSE IF NumLt(wb, 250)
    THEN [w EXCEPT !.display = "flex", !.classList = @ \cup {"caution"},
                   !.title = "Caution: Approaching Heat Stress Limits"]
    ELSE IF NumLt(wb, 280)
    THEN [w EXCEPT !.display = "flex", !.classList = @ \cup {"extreme"},
                   !.title = "Extreme Heat Warning"]
    ELSE IF NumLt(wb, 310)
    THEN [w EXCEPT !.display = "flex", !.classList = @ \cup {"danger"},
                   !.title = "Life-Threatening Conditions"]
    ELSE [w EXCEPT !.display = "flex", !.classList = @ \cup {"danger"},
                   !.title = "UNSURVIVABLE CONDITIONS"]

\* lines 419-454
displayWarning(w, wb) ==
    DisplayTier([w EXCEPT !.classList = @ \ {"caution", "extreme", "danger"}], wb)

\* ShowCalculations with displayWarning run before updateDangerIndicator
ShowCalculationsReversed(e, s) ==
    [e EXCEPT !.warningMessage =
        updateDangerIndicator(displayWarning(@, s.wetBulbTemp), s.wetBulbTemp)]

\* lines 340-341 and 352-353: what updateCalculations writes to the banner,
\* s the state it leaves
ShowCalculations(e, s) ==
    [e EXCEPT !.warningMessage =
        displayWarning(updateDangerIndicator(@, s.wetBulbTemp), s.wetBulbTemp)]

\* updateCalculations that never recomputes the wet-bulb value
updateCalculationsSkipped(s) == s

\* lines 337-355, as far as the state object goes
updateCalculations(s) ==
    IF s.mode = "wetbulb-input" THEN s
    ELSE [s EXCEPT !.wetBulbTemp = EstimateOf(s.airTemp, s.humidity)]

\* params.get(name): null for a parameter that is absent, its text otherwise
Absent == [present |-> FALSE, text |-> ""]
Param(text) == [present |-> TRUE, text |-> text]

\* lines 76-80
LoadMode(s, mode) ==
    IF mode = Param("wetbulb") THEN [s EXCEPT !.mode = "wetbulb-input"]
    ELSE IF mode = Param("temp-humidity") THEN [s EXCEPT !.mode = "temp-humidity-input"]
    ELSE s

\* lines 85-90, 96-101 and 103-108: a parameter that parses is clamped and stored
LoadValue(old, param, lo, hi) ==
    IF ~param.present \/ parseFloat(param.text) = NaN THEN old
    ELSE Clamp(lo, hi, parseFloat(param.text))

\* lines 83-108
LoadValues(s, params) ==
    IF s.mode = "wetbulb-input"
    THEN [s EXCEPT !.wetBulbTemp = LoadValue(s.wetBulbTemp, params.wetbulb, 0, 400)]
    ELSE [s EXCEPT !.airTemp = LoadValue(s.airTemp, params.temp, 0, 500),
                   !.humidity = LoadValue(s.humidity, params.humidity, 50, 1000)]

\* lines 73-109
loadStateFromURL(s, params) == LoadValues(LoadMode(s, params.mode), params)

\* lines 144-174, as far as the input elements go
updateUI(s, e) ==
    IF s.mode = "wetbulb-input"
    THEN [e EXCEPT !.wetbulbSlider = String(s.wetBulbTemp),
                   !.wetbulbInput = String(s.wetBulbTemp)]
    ELSE [e EXCEPT !.tempSlider = String(s.airTemp),
                   !.tempInput = String(s.airTemp),
                   !.humiditySlider = String(s.humidity),
                   !.humidityInput = String(s.humidity)]

\* the input elements as the markup leaves them (the markup is not part of
\* the script): empty, or preset to the values of the state object
PresetElements ==
    [wetbulbSlider |-> "20", wetbulbInput |-> "20",
     tempSlider |-> "30", tempInput |-> "30",
     humiditySlider |-> "50", humidityInput |-> "50",
     warningMessage |-> NoBanner]

\* the query strings the page is opened with
ModeParams == {Absent, Param("wetbulb"), Param("temp-humidity")}
WetbulbParams == {Absent, Param("45")}
TempParams == {Absent, Param("26")}
HumidityParams == {Absent, Param("100")}

\* what the sliders emit (in range) and what is typed into the text inputs
TempSliderTexts == {"0", "26"}
HumiditySliderTexts == {"50", "100"}
WetbulbSliderTexts == {"20", "40"}
TempTexts == {"", "60"}
HumidityTexts == {"abc", "7"}
WetbulbTexts == {"", "45"}

\* what the page's handlers leave alone
calculatorVars == <<temp, rh, humidity, targetWetBulb, wetBulbTemp, low, high, mid,
                    iterations, calculatedWetBulb, minWB, minRH, evals, result,
                    curve, temperatures, anchorPoint, reachedZeroHumidity>>

\* the script has run up to line 1290: DOMContentLoaded has not fired
InitPage ==
    /\ op = "page" /\ pc = "loading"
    /\ state = InitialState
    /\ elements \in {BlankElements, PresetElements}
    /\ curve = <<>> /\ temperatures = <<>> /\ anchorPoint = Null
    /\ reachedZeroHumidity = FALSE
    /\ temp = Zero /\ rh = 0 /\ humidity = 0 /\ targetWetBulb = Zero /\ wetBulbTemp = 0
    /\ NoCallYet

\* lines 135-141, s the state loadStateFromURL leaves
InitWith(s) ==
    /\ state' = updateCalculations(s)
    /\ elements' = ShowCalculations(updateUI(s, elements), state')

\* lines 135-141: init()
Load ==
    /\ op = "page" /\ pc = "loading"
    /\ \E mode \in ModeParams, wetbulb \in WetbulbParams,
          t \in TempParams, hum \in HumidityParams :
          InitWith(loadStateFromURL(state, [mode |-> mode, wetbulb |-> wetbulb,
                                            temp |-> t, humidity |-> hum]))
    /\ pc' = "idle"
    /\ UNCHANGED op
    /\ UNCHANGED calculatorVars

\* lines 221-236: the values read back from the text inputs
ReadInputs(s, mode) ==
    IF mode = "wetbulb-input"
    THEN [s EXCEPT !.wetBulbTemp = parseFloat(elements.wetbulbInput)]
    ELSE [s EXCEPT !.airTemp = parseFloat(elements.tempInput),
                   !.humidity = parseFloat(elements.humidityInput)]

\* lines 202-242: a click on the button of the other mode (a click on the
\* active one returns at line 211)
handleModeSwitch ==
    /\ op = "page" /\ pc = "idle"
    /\ \E mode \in {"wetbulb-input", "temp-humidity-input"} :
          /\ mode # state.mode
          /\ state' = updateCalculations([ReadInputs(state, mode) EXCEPT !.mode = mode])
    /\ elements' = ShowCalculations(elements, state')
    /\ UNCHANGED <<op, pc>>
    /\ UNCHANGED calculatorVars

\* lines 246-258
handleWetbulbSliderChange ==
    /\ op = "page" /\ pc = "idle"
    /\ \E text \in WetbulbSliderTexts :
          /\ state' = updateCalculations([state EXCEPT !.wetBulbTemp = parseFloat(text)])
          /\ elements' = ShowCalculations(
                [elements EXCEPT !.wetbulbSlider = text,
                                 !.wetbulbInput = String(parseFloat(text))],
                state')
    /\ UNCHANGED <<op, pc>>
    /\ UNCHANGED calculatorVars

\* lines 261-274
handleWetbulbInputChange ==
    /\ op = "page" /\ pc = "idle"
    /\ \E text \in WetbulbTexts :
          \E clamped \in {Clamp(0, 400, OrZero(parseFloat(text)))} :
             /\ state' = updateCalculations([state EXCEPT !.wetBulbTemp = clamped])
             /\ elements' = ShowCalculations(
                [elements EXCEPT !.wetbulbInput = text,
                                 !.wetbulbSlider = String(clamped)],
                state')
    /\ UNCHANGED <<op, pc>>
    /\ UNCHANGED calculatorVars

\* lines 278-289
handleTempSliderChange ==
    /\ op = "page" /\ pc = "idle"
    /\ \E text \in TempSliderTexts :
          /\ state' = updateCalculations([state EXCEPT !.airTemp = parseFloat(text)])
          /\ elements' = ShowCalculations(
                [elements EXCEPT !.tempSlider = text,
                                 !.tempInput = String(parseFloat(text))],
                state')
    /\ UNCHANGED <<op, pc>>
    /\ UNCHANGED calculatorVars

\* lines 292-305
handleTempInputChange ==
    /\ op = "page" /\ pc = "idle"
    /\ \E text \in TempTexts :
          \E clamped \in {Clamp(0, 500, OrZero(parseFloat(text)))} :
             /\ state' = updateCalculations([state EXCEPT !.airTemp = clamped])
             /\ elements' = ShowCalculations(
                [elements EXCEPT !.tempInput = text,
                                 !.tempSlider = String(clamped)],
                state')
    /\ UNCHANGED <<op, pc>>
    /\ UNCHANGED calculatorVars

\* lines 308-319
handleHumiditySliderChange ==
    /\ op = "page" /\ pc = "idle"
    /\ \E text \in HumiditySliderTexts :
          /\ state' = updateCalculations([state EXCEPT !.humidity = parseFloat(text)])
          /\ elements' = ShowCalculations(
                [elements EXCEPT !.humiditySlider = text,
                                 !.humidityInput = String(parseFloat(text))],
                state')
    /\ UNCHANGED <<op, pc>>
    /\ UNCHANGED calculatorVars

\* lines 322-334
handleHumidityInputChange ==
    /\ op = "page" /\ pc = "idle"
    /\ \E text \in HumidityTexts :
          \E clamped \in {Clamp(0, 1000, OrZero(parseFloat(text)))} :
             /\ state' = updateCalculations([state EXCEPT !.humidity = clamped])
             /\ elements' = ShowCalculations(
                [elements EXCEPT !.humidityInput = text,
                                 !.humiditySlider = String(clamped)],
                state')
    /\ UNCHANGED <<op, pc>>
    /\ UNCHANGED calculatorVars

NextPage ==
    \/ Load
    \/ handleModeSwitch
    \/ handleWetbulbSliderChange \/ handleWetbulbInputChange
    \/ handleTempSliderChange \/ handleTempInputChange
    \/ handleHumiditySliderChange \/ handleHumidityInputChange

SpecPage == InitPage /\ [][NextPage]_vars

PageIdle == op = "page" /\ pc = "idle"

\* C20: once the page is initialised, in temp-humidity mode state.wetBulbTemp is
\* the estimator's value at (state.airTemp, state.humidity) after every handler,
\* and on a state in wetbulb-input mode updateCalculations changes none of
\* wetBulbTemp, airTemp and humidity
C20_WetBulbInSync ==
    PageIdle =>
        IF state.mode = "wetbulb-input"
        THEN updateCalculations(state) = state
        ELSE state.wetBulbTemp = EstimateOf(state.airTemp, state.humidity)

\* temp-humidity mode reached by a mode switch, then both sliders moved
C20_Witness ==
    /\ PageIdle
    /\ state.mode = "temp-humidity-input"
    /\ state.airTemp = Num(260) /\ state.humidity = Num(1000)
    /\ state.wetBulbTemp = Num(261)
    /\ elements.wetbulbInput = "45"

\* getDangerLevel(wetBulbTemp).level for a number of the page: every
\* comparison of lines 177-201 is false of NaN, which leaves the last return
DangerTierOf(v) == IF v = NaN THEN "unsurvivable" ELSE getDangerLevel(v.value).level

\* the warning class that stands for a tier
BannerClass(tier) ==
    IF tier = "safe" THEN {}
    ELSE IF tier = "caution" THEN {"caution"}
    ELSE IF tier = "extreme" THEN {"extreme"}
    ELSE {"danger"}

\* C21: after every updateCalculations the banner shows the classifier's tier
\* of state.wetBulbTemp: it is hidden exactly when the tier is safe, and its
\* warning class is none for safe, caution for caution, extreme for extreme and
\* danger for danger and unsurvivable, whatever updateWarningMessage wrote before
C21_BannerShowsTier ==
    PageIdle =>
        /\ (elements.warningMessage.display = "none") <=> (DangerTierOf(state.wetBulbTemp) = "safe")
        /\ elements.warningMessage.display \in {"none", "flex"}
        /\ elements.warningMessage.classList = BannerClass(DangerTierOf(state.wetBulbTemp))

\* an extreme reading: updateWarningMessage hides the banner below 28 and
\* displayWarning shows it again
C21_Witness ==
    /\ PageIdle
    /\ state.mode = "temp-humidity-input"
    /\ state.wetBulbTemp = Num(261)
    /\ updateWarningMessage(NoBanner, state.wetBulbTemp).display = "none"
    /\ elements.warningMessage.display = "flex"
    /\ elements.warningMessage.classList = {"extreme"}

\* v is a number between lo and hi (tenths)
NumberIn(v, lo, hi) == v # NaN /\ lo <= v.value /\ v.value <= hi

\* C22: with sliders that emit in-range numbers only, after the URL load and
\* any text-input events and mode switches state.airTemp is a number in [0, 50],
\* state.humidity a number in [0, 100] and, in wetbulb-input mode,
\* state.wetBulbTemp a number in [0, 40]
C22_StateInDomain ==
    PageIdle =>
        /\ NumberIn(state.airTemp, 0, 500)
        /\ NumberIn(state.humidity, 0, 1000)
        /\ (state.mode = "wetbulb-input" => NumberIn(state.wetBulbTemp, 0, 400))

\* the loop of the call running has ended without a return from its body
LoopEnded == pc = "bisect" /\ ~(FlLe(low, high) /\ iterations < maxIterations)

\* C23: in both solvers the bisection loop runs at most 10 times, so the cap
\* iterations < 50 never ends it: a loop that ends without a tolerance hit has
\* run its interval empty (low > high)
C23_CapUnreachable ==
    (op \in {"findHumidityForWetBulb", "findTempForWetBulbAndHumidity"}) =>
        /\ iterations <= 10
        /\ LoopEnded => FlLt(high, low)

\* a humidity search that used every pass the interval allows and ended empty
C23_Witness ==
    /\ op = "findHumidityForWetBulb" /\ LoopEnded
    /\ iterations >= 9 /\ FlLt(high, low)

\* the call returned from lines 78-86, before any pass of the bisection loop
ArtifactReturn == Done /\ iterations = 0 /\ IsUndefined(mid)

\* C24 as stated: below the estimate at 3 %, a target under floor - 0.1 is
\* answered with 0, a target from floor - 0.1 up to but not including
\* floor + 0.2 with the rounded floor humidity, and only a target of at least
\* floor + 0.2 goes on to the bisection
C24_NoGap ==
    BelowThreePercent =>
        IF targetWetBulb.n < 512 * minWB - 512
        THEN ArtifactReturn /\ result = Num(0)
        ELSE IF targetWetBulb.n < 512 * minWB + 1024
        THEN ArtifactReturn /\ result = Num(MathRound(minRH))
        ELSE ~ArtifactReturn

\* C25: in every curve generateIsothermCurve builds, with or without an anchor
\* point, the temperatures x of the points increase strictly, and a point at
\* humidity 0 is the last point: nothing is pushed after it
C25_IncreasingAndZeroLast ==
    op = "generateIsothermCurve" =>
        \A i \in 1..(Len(curve) - 1) :
            /\ FlLt(curve[i].x, curve[i + 1].x)
            /\ curve[i].y # 0

\* a curve through its anchor that ended at a solver point at 0 %, with
\* temperatures left unvisited
C25_Witness ==
    /\ op = "generateIsothermCurve" /\ pc = "done"
    /\ anchorPoint # Null
    /\ \E i \in 1..(Len(curve) - 1) : curve[i].x = anchorPoint.temp
    /\ curve[Len(curve)].y = 0 /\ result = Num(0)
    /\ temperatures # <<>>

====
